---- MODULE Spec2Model ----
(***************************************************************************)
(* Model of .github/scripts/sync_notion.py: ObsidianToNotionSync.          *)
(*                                                                         *)
(* A text is a sequence of one-character strings, a document a sequence of *)
(* lines (what content.split('\n') returns).  The remote store (a Notion   *)
(* database) is the variable pages; every remote call is one action that   *)
(* either succeeds, with its effect on the store, or fails (raises in the  *)
(* client), with no effect on the store.                                   *)
(***************************************************************************)
EXTENDS Integers, Sequences, FiniteSets, TLC

\* ------------------------------------------------------------------ bounds
\* The number of create_or_update_page calls of one behaviour.
MaxRuns == 2
\* The number of remote calls that fail in one behaviour.
MaxFailures == 1
\* The number of blocks the store returns per blocks.children.list response.
ListPageSize == 100

\* ------------------------------------------------------- program constants
\* Blocks per pages.create / blocks.children.append request.
BatchSize == 100

Min(a, b) == IF a < b THEN a ELSE b

\* ------------------------------------------------- parser and file system state
VARIABLES
    markdown_file,     \* the argument of create_or_update_page
    markdown_content,  \* the parser's input, split into lines
    cursor,            \* the parser's i
    fs,                \* the files that exist, by path relative to markdown_dir
    uploadable,        \* the files upload_image_to_notion returns a URL for
    trace              \* history: the iterations of the parser's loop

\* The variables of the stepwise parser and of the file system.
parser == <<markdown_content, cursor, fs, uploadable, trace>>

\* --------------------------------------------------------------- str methods
Whitespace == {" ", "\t", "\r"}

IsSpace(c) == c \in Whitespace

\* Number of leading characters of s for which s[j] is in set cs.
LeadRun(s, cs) ==
    CHOOSE k \in 0..Len(s) :
        /\ \A j \in 1..k : s[j] \in cs
        /\ (k = Len(s) \/ s[k + 1] \notin cs)

\* Number of trailing characters of s that are in set cs.
TrailRun(s, cs) ==
    CHOOSE k \in 0..Len(s) :
        /\ \A j \in (Len(s) - k + 1)..Len(s) : s[j] \in cs
        /\ (k = Len(s) \/ s[Len(s) - k] \notin cs)

\* str.lstrip(chars)
lstrip(s, cs) == SubSeq(s, LeadRun(s, cs) + 1, Len(s))

\* str.rstrip()
rstrip(s) == SubSeq(s, 1, Len(s) - TrailRun(s, Whitespace))

\* str.strip()
strip(s) == lstrip(rstrip(s), Whitespace)

\* str.startswith(prefix)
startswith(s, prefix) ==
    /\ Len(s) >= Len(prefix)
    /\ SubSeq(s, 1, Len(prefix)) = prefix

\* s[k:] of Python (k is 0-based)
From(s, k) == SubSeq(s, k + 1, Len(s))

\* ------------------------------------------------------------- block parser
Block(type, content, language, checked) ==
    [type |-> type, content |-> content, language |-> language, checked |-> checked]

\* The fence marker: three backticks (a backtick is written "^" in this module).
Fence == <<"^", "^", "^">>

\* Mutant of HeadingBlock: the level is not clamped.
HeadingUnclamped(line) ==
    LET level == LeadRun(line, {"#"})
    IN  Block(IF level = 1 THEN "heading_1"
              ELSE IF level = 2 THEN "heading_2"
              ELSE IF level = 3 THEN "heading_3" ELSE "heading_4",
              strip(lstrip(line, {"#"})), <<>>, FALSE)

\* line.startswith('#'): the heading block of the line
HeadingBlock(line) ==
    LET level == Min(LeadRun(line, {"#"}), 3)
    IN  Block(IF level = 1 THEN "heading_1"
              ELSE IF level = 2 THEN "heading_2" ELSE "heading_3",
              strip(lstrip(line, {"#"})), <<>>, FALSE)

\* re.match(r'^[\-\*]\s+', line)
IsBullet(line) ==
    /\ Len(line) >= 2
    /\ line[1] \in {"-", "*"}
    /\ IsSpace(line[2])

\* re.sub(r'^[\-\*]\s+', '', line)
BulletBlock(line) ==
    Block("bulleted_list_item", lstrip(From(line, 1), Whitespace), <<>>, FALSE)

\* re.match(r'^\-\s\[[\sx]\]', line)
IsTodo(line) ==
    /\ Len(line) >= 5
    /\ line[1] = "-"
    /\ IsSpace(line[2])
    /\ line[3] = "["
    /\ (IsSpace(line[4]) \/ line[4] = "x")
    /\ line[5] = "]"

\* '[x]' in line.lower()
HasCheckedMark(line) ==
    \E k \in 1..(Len(line) - 2) :
        /\ line[k] = "["
        /\ line[k + 1] \in {"x", "X"}
        /\ line[k + 2] = "]"

\* re.sub(r'^\-\s\[[\sx]\]\s*', '', line)
TodoBlock(line) ==
    Block("to_do", lstrip(From(line, 5), Whitespace), <<>>, HasCheckedMark(line))

\* '\n'.join(code_lines)
RECURSIVE JoinLines(_)
JoinLines(ls) ==
    IF Len(ls) = 0 THEN <<>>
    ELSE IF Len(ls) = 1 THEN ls[1]
    ELSE ls[1] \o <<"\n">> \o JoinLines(Tail(ls))

\* The 0-based index of the first line at or after i whose stripped text
\* starts with the fence, Len(lines) when there is none.
FenceEnd(lines, i) ==
    CHOOSE k \in i..Len(lines) :
        /\ \A j \in i..(k - 1) : ~startswith(strip(lines[j + 1]), Fence)
        /\ (k = Len(lines) \/ startswith(strip(lines[k + 1]), Fence))

CodeBlock(lines, i) ==
    LET lang == strip(From(strip(lines[i + 1]), 3))
    IN  Block("code",
              JoinLines(SubSeq(lines, i + 2, FenceEnd(lines, i + 1))),
              IF lang = <<>> THEN <<"p","l","a","i","n"," ","t","e","x","t">> ELSE lang,
              FALSE)

\* Mutant of FrontMatterEnd: the front matter goes on to the end of the file.
FrontMatterToEnd(lines, i) == Len(lines)

\* The 0-based index of the first line at or after i whose stripped text is
\* '---', Len(lines) when there is none.
FrontMatterEnd(lines, i) ==
    CHOOSE k \in i..Len(lines) :
        /\ \A j \in i..(k - 1) : strip(lines[j + 1]) # <<"-", "-", "-">>
        /\ (k = Len(lines) \/ strip(lines[k + 1]) = <<"-", "-", "-">>)

QuoteBlock(line) == Block("quote", strip(From(line, 1)), <<>>, FALSE)

ParagraphBlock(line) == Block("paragraph", strip(line), <<>>, FALSE)

\* -------------------------------------------------------------------- vault
\* The markdown files of the vault, by number.
Docs == {1, 2}

\* The path of a file as given to create_or_update_page; the vault root is
\* the directory "/v".
FilePath(d) ==
    IF d = 1 THEN <<"/", "v", "/", "a", ".", "m", "d">>
    ELSE IF d = 2 THEN <<"/", "v", "/", "s", "/", "b", ".", "m", "d">>
    ELSE IF d = 3 THEN <<"/", "v", "/", ".", "g", "i", "t", "/", "c", ".", "m", "d">>
    ELSE <<"/", "v", "/", "s", "\\", "b", ".", "m", "d">>

VaultPath == <<"/", "v">>

\* Path.relative_to(vault_path): the path below the vault root (the source's
\* ValueError branch keeps the path as given).
relative_to(path, root) ==
    IF startswith(path, root \o <<"/">>) THEN From(path, Len(root) + 1) ELSE path

\* Mutant of ReplaceBackslash: the separators are left as they are.
KeepBackslash(s) == s

\* str.replace('\\', '/')
ReplaceBackslash(s) == [k \in 1..Len(s) |-> IF s[k] = "\\" THEN "/" ELSE s[k]]

\* hashlib.sha256(...).hexdigest()[:16], taken as collision free on the
\* paths of the vault: the identity is a tagged copy of the hashed text.
generate_file_id(d) ==
    [sha256_16 |-> ReplaceBackslash(relative_to(FilePath(d), VaultPath))]

\* ------------------------------------------------------------------ images
\* str.endswith(suffix)
endswith(s, suffix) ==
    /\ Len(s) >= Len(suffix)
    /\ SubSeq(s, Len(s) - Len(suffix) + 1, Len(s)) = suffix

\* s[a:b] of Python (a, b are 0-based, 0 <= a, 0 <= b)
Slice(s, a, b) == SubSeq(s, a + 1, Min(b, Len(s)))

\* s.find(sub, start): the 0-based index of the first occurrence of sub at
\* or after start, -1 when there is none.
Find(s, sub, start) ==
    LET hits == {k \in start..(Len(s) - Len(sub)) : SubSeq(s, k + 1, k + Len(sub)) = sub}
    IN  IF hits = {} THEN -1 ELSE CHOOSE k \in hits : \A j \in hits : k <= j

\* s.rfind(sub): the 0-based index of the last occurrence of sub, -1 when
\* there is none.
RFind(s, sub) ==
    LET hits == {k \in 0..(Len(s) - Len(sub)) : SubSeq(s, k + 1, k + Len(sub)) = sub}
    IN  IF hits = {} THEN -1 ELSE CHOOSE k \in hits : \A j \in hits : k >= j

\* Python's None where a path or a URL is expected: str(Path(...)) and the
\* URL built by upload_image_to_notion are never empty.
NoPath == <<>>

\* Path.parent
Parent(p) == SubSeq(p, 1, RFind(p, <<"/">>))

\* markdown_file.parent, the directory the parser is given.
MarkdownDir == Parent(FilePath(markdown_file))

\* Path(p).name: the last component of the path; '' for '' and '.'.
PathName(p) ==
    LET q == SubSeq(p, 1, Len(p) - TrailRun(p, {"/"}))
        n == From(q, RFind(q, <<"/">>) + 1)
    IN  IF n = <<".">> THEN <<>> ELSE n

\* Path.is_absolute()
is_absolute(p) == startswith(p, <<"/">>)

\* str(dir / p): an absolute p replaces dir, a leading './' and an empty p
\* vanish.
Join(dir, p) ==
    LET q == IF startswith(p, <<".", "/">>) THEN From(p, 2) ELSE p
    IN  IF is_absolute(q) THEN q
        ELSE IF q = <<>> \/ q = <<".">> THEN dir
        ELSE dir \o <<"/">> \o q

\* Path.exists(): the path is a file of the file system or a directory
\* above one.
exists(p) ==
    \E f \in fs \cup {FilePath(markdown_file)} : f = p \/ startswith(f, p \o <<"/">>)

\* The first path of the sequence that exists, None when none does.
FirstExisting(candidates) ==
    LET hits == {k \in 1..Len(candidates) : exists(candidates[k])}
    IN  IF hits = {} THEN NoPath
        ELSE candidates[CHOOSE k \in hits : \A j \in hits : k <= j]

\* The extensions find_image_path appends, in its order.
Extensions ==
    << <<".", "p", "n", "g">>, <<".", "j", "p", "g">>, <<".", "j", "p", "e", "g">>,
       <<".", "g", "i", "f">>, <<".", "w", "e", "b", "p">>, <<".", "P", "N", "G">>,
       <<".", "J", "P", "G">>, <<".", "J", "P", "E", "G">> >>

\* The directories find_image_path looks into, in its order.
SearchDirs(markdown_dir) ==
    << Join(markdown_dir, <<"i", "m", "a", "g", "e", "s">>),
       Join(markdown_dir, <<"a", "t", "t", "a", "c", "h", "m", "e", "n", "t", "s">>),
       markdown_dir >>

\* str.strip('[]!')
StripBrackets(s) ==
    LET cs == {"[", "]", "!"}
        t == SubSeq(s, 1, Len(s) - TrailRun(s, cs))
    IN  lstrip(t, cs)

find_image_path(markdown_dir, image_ref) ==
    LET clean_name == PathName(StripBrackets(image_ref))
        dirs == SearchDirs(markdown_dir)
        n == Len(Extensions)
    IN  FirstExisting([k \in 1..(Len(dirs) * n) |->
            Join(dirs[((k - 1) \div n) + 1], clean_name \o Extensions[((k - 1) % n) + 1])])

IsExternal(image_path) ==
    \/ startswith(image_path, <<"h", "t", "t", "p", ":", "/", "/">>)
    \/ startswith(image_path, <<"h", "t", "t", "p", "s", ":", "/", "/">>)

_resolve_image_path(markdown_dir, image_path) ==
    IF IsExternal(image_path) THEN NoPath
    ELSE IF is_absolute(image_path)
        THEN IF exists(image_path) THEN image_path ELSE NoPath
    ELSE FirstExisting(
           << Join(markdown_dir, image_path),
              Join(markdown_dir, <<"i", "m", "a", "g", "e", "s", "/">> \o PathName(image_path)),
              Join(markdown_dir, <<"a", "s", "s", "e", "t", "s", "/">> \o PathName(image_path)),
              Join(markdown_dir, <<"a", "t", "t", "a", "c", "h", "m", "e", "n", "t", "s", "/">>
                                 \o PathName(image_path)) >>)

\* The characters urllib.parse.quote(..., safe='/') leaves alone, among
\* those of the texts modelled.
SafeChars ==
    {"a", "b", "c", "d", "e", "f", "g", "h", "i", "j", "m", "n", "p", "s", "t", "w", "x",
     "G", "J", "N", "P", "E", "0", "1", "2", ".", "-", "_", "~", "/"}

\* The two hexadecimal digits of a character quote() escapes.
HexCode(c) ==
    CASE c = " " -> <<"2", "0">>
      [] c = "!" -> <<"2", "1">>
      [] c = "#" -> <<"2", "3">>
      [] c = "(" -> <<"2", "8">>
      [] c = ")" -> <<"2", "9">>
      [] c = ":" -> <<"3", "A">>
      [] c = "[" -> <<"5", "B">>
      [] c = "]" -> <<"5", "D">>
      [] OTHER   -> <<"hex", c>>

\* urllib.parse.quote(s, safe='/')
RECURSIVE quote(_)
quote(s) ==
    IF s = <<>> THEN <<>>
    ELSE (IF s[1] \in SafeChars THEN <<s[1]>> ELSE <<"%">> \o HexCode(s[1]))
         \o quote(Tail(s))

\* ---------------------------------------------------------------- documents
\* Path.stem: the file name without directory and without its last suffix.
Stem(d) ==
    LET name == PathName(FilePath(d))
    IN  IF RFind(name, <<".">>) > 0 THEN Slice(name, 0, RFind(name, <<".">>)) ELSE name

\* The title create_or_update_page derives from the content.
Title(d, lines) ==
    LET first_line == strip(lines[1])
    IN  IF startswith(first_line, <<"#">>)
        THEN strip(lstrip(first_line, {"#"}))
        ELSE Stem(d)

DigitChars == <<"0", "1", "2", "3", "4", "5", "6", "7", "8", "9">>

RECURSIVE Digits(_)
Digits(n) ==
    IF n < 10 THEN <<DigitChars[n + 1]>>
    ELSE Digits(n \div 10) \o <<DigitChars[(n % 10) + 1]>>

\* A document of n consecutive bulleted-list lines "- 1", "- 2", ...
BulletDoc(n) == [k \in 1..n |-> <<"-", " ">> \o Digits(k)]

\* The empty file: ''.split('\n') is [''].
EmptyDoc == << <<>> >>

\* "# Title\nHello world"
TitleDoc ==
    << <<"#", " ", "T", "i", "t", "l", "e">>,
       <<"H", "e", "l", "l", "o", " ", "w", "o", "r", "l", "d">> >>

\* The contents a file of the vault may have when it is read: file 2 is a
\* short note, file 1 may be long.
SmallDocuments == {EmptyDoc, TitleDoc, BulletDoc(2)}
LargeDocuments == {BulletDoc(n) : n \in {100, 137, 150, 201}}
Documents(kind, d) ==
    IF kind = "workers"
    THEN IF d = 2 THEN {TitleDoc} ELSE {TitleDoc, BulletDoc(BatchSize + 1)}
    ELSE IF d = 2 THEN SmallDocuments
    ELSE IF kind = "batches" THEN SmallDocuments \cup LargeDocuments
    ELSE SmallDocuments \cup {BulletDoc(BatchSize + 1)}

\* ------------------------------------------------------------ image blocks
\* The text in front of the encoded path in the URL of an image.
RawUrlPrefix == <<"https://raw.githubusercontent.com/", "alon211/obsidian_public", "/", "main", "/">>

\* Mutant of upload_image_to_notion: building the URL never raises.
AlwaysUploaded(image_path) ==
    RawUrlPrefix \o quote(ReplaceBackslash(PathName(image_path)))

\* upload_image_to_notion: the GitHub raw URL of the file, None when building
\* it raises.  A file outside the vault root goes by its name.
upload_image_to_notion(image_path) ==
    LET rel_path == IF startswith(image_path, VaultPath \o <<"/">>)
                    THEN relative_to(image_path, VaultPath)
                    ELSE PathName(image_path)
    IN  IF image_path \in uploadable
        THEN RawUrlPrefix \o quote(ReplaceBackslash(rel_path))
        ELSE NoPath

ImageBlock(image_url) == Block("image", image_url, <<>>, FALSE)

\* The placeholder texts; the camera sign, the warning sign (two code
\* points) and the Chinese characters are written as words.
CameraPicture(name) ==
    <<"[", "camera", " ", "tu", "pian", ":", " ">> \o name \o <<"]">>
WarningNotFound(name) ==
    <<"[", "warning", "vs16", " ", "tu", "pian", "wei", "zhao", "dao", ":", " ">>
    \o name \o <<"]">>
Camera(name) == <<"[", "camera", " ">> \o name \o <<"]">>
Warning(name) == <<"[", "warning", "vs16", " ">> \o name \o <<"]">>

\* A paragraph whose text is kept as it is.
TextBlock(content) == Block("paragraph", content, <<>>, FALSE)

\* re.match(r'^!\[\[(.*?)\]\]$', line)
IsWikiImageLine(line) ==
    /\ Len(line) >= 5
    /\ startswith(line, <<"!", "[", "[">>)
    /\ endswith(line, <<"]", "]">>)

\* The block of a line that is one wiki-link image.
WikiImageBlock(line) ==
    LET image_name == Slice(line, 3, Len(line) - 2)
        image_path == find_image_path(MarkdownDir, image_name)
        image_url == upload_image_to_notion(image_path)
    IN  IF image_path # NoPath
        THEN IF image_url # NoPath THEN ImageBlock(image_url)
             ELSE TextBlock(CameraPicture(image_name))
        ELSE TextBlock(WarningNotFound(image_name))

\* re.match(r'^!\[(.*?)\]\((.*?)\)$', line): the index of the '](' that
\* ends the first group.
MdSplitAt(line) == Find(line, <<"]", "(">>, 2)

IsMdImageLine(line) ==
    /\ startswith(line, <<"!", "[">>)
    /\ endswith(line, <<")">>)
    /\ MdSplitAt(line) # -1
    /\ MdSplitAt(line) + 2 <= Len(line) - 1

\* The block of a line that is one markdown image.
MdImageBlock(line) ==
    LET image_path == Slice(line, MdSplitAt(line) + 2, Len(line) - 1)
        full_image_path == _resolve_image_path(MarkdownDir, image_path)
        image_url == upload_image_to_notion(full_image_path)
    IN  IF full_image_path # NoPath /\ exists(full_image_path)
        THEN IF image_url # NoPath THEN ImageBlock(image_url)
             ELSE TextBlock(CameraPicture(PathName(full_image_path)))
        ELSE TextBlock(WarningNotFound(image_path))

\* Where a match of the pattern of one of the kinds that begins at p ends,
\* -1 when none begins there: '!\[\[.*?\]\]' (wiki) is tried before
\* '!\[.*?\]\(.*?\)' (md).
MatchEnd(line, kinds, p) ==
    LET q == Find(line, <<"]", "]">>, p + 3)
        r == Find(line, <<"]", "(">>, p + 2)
        t == IF r = -1 THEN -1 ELSE Find(line, <<")">>, r + 2)
    IN  IF "wiki" \in kinds /\ Slice(line, p, p + 3) = <<"!", "[", "[">> /\ q # -1
            THEN q + 2
        ELSE IF "md" \in kinds /\ Slice(line, p, p + 2) = <<"!", "[">> /\ t # -1
            THEN t + 1
        ELSE -1

\* re.finditer: the matches from p on, left to right, without overlap.
RECURSIVE finditer(_, _, _)
finditer(line, kinds, p) ==
    IF p >= Len(line) THEN <<>>
    ELSE IF MatchEnd(line, kinds, p) = -1 THEN finditer(line, kinds, p + 1)
    ELSE <<[start |-> p, end |-> MatchEnd(line, kinds, p)]>>
         \o finditer(line, kinds, MatchEnd(line, kinds, p))

\* inline_images is not empty.
HasInlineImages(line) ==
    \/ finditer(line, {"md"}, 0) # <<>>
    \/ finditer(line, {"wiki"}, 0) # <<>>

all_matches(line) == finditer(line, {"wiki", "md"}, 0)

\* The block of one image inside a line.
InlineImageBlock(match_text) ==
    IF startswith(match_text, <<"!", "[", "[">>)
    THEN LET image_name == Slice(match_text, 3, Len(match_text) - 2)
             full_image_path == _resolve_image_path(MarkdownDir, image_name)
             image_url == upload_image_to_notion(full_image_path)
         IN  IF full_image_path # NoPath /\ exists(full_image_path)
             THEN IF image_url # NoPath THEN ImageBlock(image_url)
                  ELSE TextBlock(Camera(image_name))
             ELSE TextBlock(Warning(image_name))
    ELSE LET inner == Slice(match_text, 2, Len(match_text) - 1)
             cut == Find(inner, <<"]", "(">>, 0)
             alt_text == Slice(inner, 0, cut)
             rest == From(inner, cut + 2)
             image_path == SubSeq(rest, 1, Len(rest) - TrailRun(rest, {")"}))
             full_image_path == _resolve_image_path(MarkdownDir, image_path)
             image_url == upload_image_to_notion(full_image_path)
         IN  IF full_image_path # NoPath /\ exists(full_image_path)
             THEN IF image_url # NoPath THEN ImageBlock(image_url)
                  ELSE TextBlock(Camera(IF alt_text # <<>> THEN alt_text
                                        ELSE PathName(full_image_path)))
             ELSE TextBlock(Warning(image_path))

\* ''.join(text_parts): the characters of the line outside every match.
TextParts(line) ==
    LET ms == all_matches(line)
        outside == SelectSeq([k \in 1..Len(line) |-> k],
                             LAMBDA k : \A m \in 1..Len(ms) :
                                           ~(ms[m].start < k /\ k <= ms[m].end))
    IN  [j \in 1..Len(outside) |-> line[outside[j]]]

\* Mutant of InlineBlocks: the text of the line comes before its images.
TextBeforeImages(line) ==
    LET ms == all_matches(line)
        combined_text == strip(TextParts(line))
    IN  (IF combined_text # <<>> THEN <<TextBlock(combined_text)>> ELSE <<>>)
        \o [k \in 1..Len(ms) |-> InlineImageBlock(Slice(line, ms[k].start, ms[k].end))]

\* The blocks of a line with images inside: the images in their order, then
\* the rest of the text when it is not blank.
InlineBlocks(line) ==
    LET ms == all_matches(line)
        combined_text == strip(TextParts(line))
    IN  [k \in 1..Len(ms) |-> InlineImageBlock(Slice(line, ms[k].start, ms[k].end))]
        \o (IF combined_text # <<>> THEN <<TextBlock(combined_text)>> ELSE <<>>)

\* ------------------------------------------------------------- parser loop
\* Mutant of NextLine: the cursor stays where it is.
SameLine(i) == i

\* i += 1
NextLine(i) == i + 1

\* The rule the while loop applies to the line at 0-based cursor i.
Rule(lines, i) ==
    LET line == rstrip(lines[i + 1])
    IN  IF line = <<"-", "-", "-">> /\ i = 0 THEN "front_matter"
        ELSE IF strip(line) = <<>> THEN "blank"
        ELSE IF startswith(line, <<"#">>) THEN "heading"
        ELSE IF IsBullet(line) THEN "bullet"
        ELSE IF IsTodo(line) THEN "todo"
        ELSE IF startswith(strip(line), Fence) THEN "code"
        ELSE IF startswith(line, <<">">>) THEN "quote"
        ELSE IF IsWikiImageLine(line) THEN "wiki_image"
        ELSE IF IsMdImageLine(line) THEN "md_image"
        ELSE IF HasInlineImages(line) /\ all_matches(line) # <<>> THEN "inline_images"
        ELSE "paragraph"

\* One iteration of the while loop at 0-based cursor i: the rule applied,
\* the new cursor and the blocks appended.
ParseStep(lines, i) ==
    LET line == rstrip(lines[i + 1])
        rule == Rule(lines, i)
    IN  [rule |-> rule,
         i |-> IF rule = "front_matter" THEN NextLine(FrontMatterEnd(lines, i + 1))
               ELSE IF rule = "code" THEN NextLine(FenceEnd(lines, i + 1))
               ELSE NextLine(i),
         out |-> CASE rule = "front_matter" -> <<>>
                   [] rule = "blank" -> <<>>
                   [] rule = "heading" -> <<HeadingBlock(line)>>
                   [] rule = "bullet" -> <<BulletBlock(line)>>
                   [] rule = "todo" -> <<TodoBlock(line)>>
                   [] rule = "code" -> <<CodeBlock(lines, i)>>
                   [] rule = "quote" -> <<QuoteBlock(line)>>
                   [] rule = "wiki_image" -> <<WikiImageBlock(line)>>
                   [] rule = "md_image" -> <<MdImageBlock(line)>>
                   [] rule = "inline_images" -> InlineBlocks(line)
                   [] OTHER -> <<ParagraphBlock(line)>>]

\* The while loop run from cursor i for as long as the cursor is below j: the
\* cursor it ends with and the blocks appended.  The run is split in two
\* halves, the second beginning where the first one ends.
RECURSIVE ParseRange(_, _, _)
ParseRange(lines, i, j) ==
    IF i >= j THEN [i |-> i, out |-> <<>>]
    ELSE IF j - i = 1 THEN ParseStep(lines, i)
    ELSE LET a == ParseRange(lines, i, (i + j) \div 2)
             b == ParseRange(lines, a.i, j)
         IN  [i |-> b.i, out |-> a.out \o b.out]

convert_obsidian_to_notion_blocks(lines) == ParseRange(lines, 0, Len(lines)).out

\* ------------------------------------------------------------- remote store
\* The value of Python's None for a page id.
None == 0

\* A block as the store holds it.
RemoteBlock(id, b) == [id |-> id, type |-> b.type, block |-> b]

\* The blocks of bs as stored with the ids first, first + 1, ...
Stored(bs, first) == [k \in 1..Len(bs) |-> RemoteBlock(first + k - 1, bs[k])]

\* What a page of the store held before the program ran: a paragraph, a
\* block of a type the API reports as 'unsupported', and a heading.
OldBlocks(first) ==
    << RemoteBlock(first, Block("paragraph", <<"o", "l", "d">>, <<>>, FALSE)),
       [id |-> first + 1, type |-> "unsupported",
        block |-> Block("unsupported", <<>>, <<>>, FALSE)],
       RemoteBlock(first + 2, Block("heading_1", <<"O", "l", "d">>, <<>>, FALSE)) >>

\* The page of file d as an earlier run of the program left it in the store.
OldPage(d) ==
    [id |-> 10 * d, file_id |-> generate_file_id(d), title |-> Stem(d),
     children |-> OldBlocks(10 * d + 1)]

\* The contents of a block list, without the store's ids.
Contents(children) == [k \in 1..Len(children) |-> children[k].block]

\* -------------------------------------------------------------------- state
VARIABLES
    pages,             \* the remote database: its pages, in the order of creation
    next_id,           \* the next id the store hands out
    vault,             \* which contents the files of the vault may have
    pc,                \* where create_or_update_page stands
    file_id,           \* generate_file_id(markdown_file)
    title,
    blocks,            \* the parser's output
    existing_page_id,  \* find_page_by_file_id's result
    listed,            \* clear_page_blocks: blocks
    start_cursor,      \* clear_page_blocks: start_cursor (0 for None)
    i,                 \* the index of the running loop (0-based)
    page_id,           \* the create path: page['id']
    outcome,           \* how the call ended
    reqs,              \* history: the remote requests of the call, in order
    pre,               \* history: the store when the call began
    lookup_failed,     \* history: find_page_by_file_id ended in a failure
    last,              \* history: per file, its previous call
    runs,              \* calls completed
    failures,          \* remote calls that failed
    suspended,         \* the call of the worker that is not running
    preempted          \* history: the identities of the calls switched out

vars == <<pages, next_id, vault, pc, markdown_file, file_id, title, blocks,
          existing_page_id, listed, start_cursor, i, page_id, outcome, reqs,
          pre, lookup_failed, last, runs, failures, suspended, preempted,
          markdown_content, cursor, fs, uploadable, trace>>

local == <<markdown_file, file_id, title, blocks>>

\* The variables of the second worker.
workers == <<suspended, preempted>>

\* A request as recorded in reqs.
Request(op, ok, target, children) ==
    [op |-> op, ok |-> ok, target |-> target, children |-> children]

\* The outcomes of a remote call: it succeeds, or (while the behaviour may
\* still fail) it raises.
Outcomes == IF failures < MaxFailures THEN {TRUE, FALSE} ELSE {TRUE}

Failed(ok) == IF ok THEN failures ELSE failures + 1

\* The index in pages of the page with id pid.
PageIndex(pid) == CHOOSE k \in 1..Len(pages) : pages[k].id = pid

\* The store's answer to the file_id filter: the matching pages, in the
\* store's order.
QueryResults(fid) == SelectSeq(pages, LAMBDA p : p.file_id = fid)

\* results[0]['id'] if results else None
FirstResult(results) == IF Len(results) > 0 THEN results[1].id ELSE None

\* Mutant of Batch: the slice ends one block late.
BatchOneMore(bs, k) == SubSeq(bs, k + 1, Min(k + BatchSize + 1, Len(bs)))

\* Mutant of Batch: the slice ends one block early.
BatchOneLess(bs, k) == SubSeq(bs, k + 1, Min(k + BatchSize - 1, Len(bs)))

\* Mutant of Batch: every slice starts at the first block.
BatchFromStart(bs, k) == SubSeq(bs, 1, Min(BatchSize, Len(bs)))

\* blocks[i:i+100]
Batch(bs, k) == SubSeq(bs, k + 1, Min(k + BatchSize, Len(bs)))

\* Mutant of FirstBatch: the create request carries every block.
AllBlocks(bs) == bs

\* blocks[:100]
FirstBatch(bs) == SubSeq(bs, 1, Min(BatchSize, Len(bs)))

\* Mutant of NoBlocks: an empty block list is not skipped.
NeverEmpty(bs) == FALSE

\* if not blocks
NoBlocks(bs) == Len(bs) = 0

\* Mutant of Deletable: the clear deletes the blocks of every type.
DeleteEveryType(b) == TRUE

\* block.get('type') != 'unsupported'
Deletable(b) == b.type # "unsupported"

\* Mutant of WithAppended: the page also takes the title derived locally.
WithAppendedAndRetitled(pid, bs) ==
    [pages EXCEPT ![PageIndex(pid)].children = @ \o Stored(bs, next_id),
                  ![PageIndex(pid)].title = title]

\* The store with the blocks bs appended to page pid.
WithAppended(pid, bs) ==
    [pages EXCEPT ![PageIndex(pid)].children = @ \o Stored(bs, next_id)]

\* The store with block bid removed from page pid.
WithDeleted(pid, bid) ==
    [pages EXCEPT ![PageIndex(pid)].children = SelectSeq(@, LAMBDA b : b.id # bid)]

NoLast == [blocks |-> <<>>, outcome |-> "none", clean |-> FALSE, after |-> <<>>]

\* A worker that has not been given a file yet, in the store st.
IdleWorker(st) ==
    [pc |-> "idle", markdown_file |-> 0, file_id |-> [sha256_16 |-> <<>>],
     title |-> <<>>, blocks |-> <<>>, existing_page_id |-> None,
     listed |-> <<>>, start_cursor |-> 0, i |-> 0, page_id |-> None,
     outcome |-> "none", reqs |-> <<>>, pre |-> st, lookup_failed |-> FALSE]

\* The stores the program may start from: at most one page per identity.
InitialStores ==
    { <<>>, <<OldPage(2), OldPage(1)>> }

\* No call has begun.
InitCall ==
    /\ next_id = 100
    /\ pc = "idle"
    /\ markdown_file = 0
    /\ file_id = [sha256_16 |-> <<>>]
    /\ title = <<>>
    /\ blocks = <<>>
    /\ existing_page_id = None
    /\ listed = <<>>
    /\ start_cursor = 0
    /\ i = 0
    /\ page_id = None
    /\ outcome = "none"
    /\ reqs = <<>>
    /\ pre = pages
    /\ lookup_failed = FALSE
    /\ last = [d \in Docs |-> NoLast]
    /\ runs = 0
    /\ suspended = IdleWorker(pages)
    /\ preempted = {}
    /\ markdown_content = <<>>
    /\ cursor = 0
    /\ fs = {}
    /\ uploadable = {}
    /\ trace = <<>>

InitCommon ==
    /\ pages \in InitialStores
    /\ InitCall

\* Remote calls may fail; the files are short or two batches long.
Init ==
    /\ InitCommon
    /\ vault = "failing"
    /\ failures = 0

\* Every remote call succeeds; the files are of every length.
InitBatch ==
    /\ InitCommon
    /\ vault = "batches"
    /\ failures = MaxFailures

\* ------------------------------------------------ create_or_update_page
\* The calls of the other worker that have begun and not returned.
Running == IF suspended.pc = "idle" THEN 0 ELSE 1

\* The call begins: the file is read (or not), the title derived, the
\* content parsed; an empty block list ends the call.
Start(d, readable, content) ==
    /\ pc = "idle"
    /\ runs + Running < MaxRuns
    /\ markdown_file' = d
    /\ file_id' = generate_file_id(d)
    /\ reqs' = <<>>
    /\ pre' = pages
    /\ lookup_failed' = FALSE
    /\ existing_page_id' = None
    /\ listed' = <<>>
    /\ start_cursor' = 0
    /\ i' = 0
    /\ page_id' = None
    /\ IF ~readable
       THEN /\ title' = <<>>
            /\ blocks' = <<>>
            /\ outcome' = "read_failed"
            /\ pc' = "done"
       ELSE /\ title' = Title(d, content)
            /\ blocks' = convert_obsidian_to_notion_blocks(content)
            /\ IF NoBlocks(blocks')
               THEN outcome' = "skipped" /\ pc' = "done"
               ELSE outcome' = "running" /\ pc' = "lookup"
    /\ UNCHANGED <<parser, workers>>
    /\ UNCHANGED <<pages, next_id, vault, last, runs, failures>>

\* Mutant of AfterLookup: the page found is ignored and a page is created.
AlwaysCreate(found) == "create"

\* What create_or_update_page does with find_page_by_file_id's result.
AfterLookup(found) == IF found # None THEN "clear_list" ELSE "create"

\* find_page_by_file_id, method 1: notion.databases.query.
DatabasesQuery(ok) ==
    /\ pc = "lookup"
    /\ reqs' = Append(reqs, Request("databases.query", ok, file_id, <<>>))
    /\ failures' = Failed(ok)
    /\ IF ok
       THEN /\ existing_page_id' = FirstResult(QueryResults(file_id))
            /\ pc' = AfterLookup(existing_page_id')
       ELSE /\ pc' = "lookup_http"
            /\ UNCHANGED existing_page_id
    /\ UNCHANGED <<parser, workers>>
    /\ UNCHANGED <<pages, next_id, vault, local, listed, start_cursor, i,
                   page_id, outcome, pre, lookup_failed, last, runs>>

\* The client has no databases.query: method 2 is used at once.
NoDatabasesQuery ==
    /\ pc = "lookup"
    /\ pc' = "lookup_http"
    /\ UNCHANGED <<parser, workers>>
    /\ UNCHANGED <<pages, next_id, vault, local, existing_page_id, listed,
                   start_cursor, i, page_id, outcome, reqs, pre,
                   lookup_failed, last, runs, failures>>

\* find_page_by_file_id, method 2: the HTTP request to the same query
\* endpoint of the store.  A status other than 200 and every exception
\* return None.
HttpQuery(ok) ==
    /\ pc = "lookup_http"
    /\ reqs' = Append(reqs, Request("databases.query", ok, file_id, <<>>))
    /\ failures' = Failed(ok)
    /\ existing_page_id' = IF ok THEN FirstResult(QueryResults(file_id)) ELSE None
    /\ lookup_failed' = ~ok
    /\ pc' = AfterLookup(existing_page_id')
    /\ UNCHANGED <<parser, workers>>
    /\ UNCHANGED <<pages, next_id, vault, local, listed, start_cursor, i,
                   page_id, outcome, pre, last, runs>>

\* Mutant of AfterFailure: the False a step returns is ignored.
GoOnAfterFailure(step) == "append"

\* Mutant of AfterFailure: the failure of a step is raised to the caller.
RaiseAfterFailure(step) == "raised"

\* What create_or_update_page does when a step of the update path fails.
AfterFailure(step) == "done"

\* clear_page_blocks: one blocks.children.list request.  The store answers
\* with the next ListPageSize blocks, has_more and next_cursor.
ListChildren(ok) ==
    /\ pc = "clear_list"
    /\ reqs' = Append(reqs, Request("blocks.children.list", ok, existing_page_id, <<>>))
    /\ failures' = Failed(ok)
    /\ IF ok
       THEN LET children == pages[PageIndex(existing_page_id)].children
                results == SubSeq(children, start_cursor + 1,
                                  Min(start_cursor + ListPageSize, Len(children)))
                has_more == start_cursor + ListPageSize < Len(children)
            IN  /\ listed' = listed \o results
                /\ start_cursor' = IF has_more THEN start_cursor + ListPageSize ELSE 0
                /\ pc' = IF has_more THEN "clear_list"
                         ELSE IF Len(listed') = 0 THEN "append" ELSE "clear_delete"
                /\ UNCHANGED outcome
       ELSE /\ outcome' = "clear_failed"
            /\ pc' = AfterFailure("clear")
            /\ UNCHANGED <<listed, start_cursor>>
    /\ UNCHANGED <<parser, workers>>
    /\ UNCHANGED <<pages, next_id, vault, local, existing_page_id, i, page_id,
                   pre, lookup_failed, last, runs>>

\* The delete loop moves to its next block, or the clear returns True.
NextDelete ==
    /\ i' = IF i + 1 < Len(listed) THEN i + 1 ELSE 0
    /\ pc' = IF i + 1 < Len(listed) THEN "clear_delete" ELSE "append"

\* clear_page_blocks: a listed block of type 'unsupported' is passed over.
SkipUnsupported ==
    /\ pc = "clear_delete"
    /\ ~Deletable(listed[i + 1])
    /\ NextDelete
    /\ UNCHANGED <<parser, workers>>
    /\ UNCHANGED <<pages, next_id, vault, local, existing_page_id, listed,
                   start_cursor, page_id, outcome, reqs, pre, lookup_failed,
                   last, runs, failures>>

\* Mutant of DeleteBlock: a failed delete ends the clear, which fails.
DeleteBlockOrAbort(ok) ==
    /\ pc = "clear_delete"
    /\ Deletable(listed[i + 1])
    /\ reqs' = Append(reqs, Request("blocks.delete", ok, listed[i + 1].id, <<>>))
    /\ failures' = Failed(ok)
    /\ pages' = IF ok THEN WithDeleted(existing_page_id, listed[i + 1].id) ELSE pages
    /\ IF ok
       THEN NextDelete /\ UNCHANGED outcome
       ELSE outcome' = "clear_failed" /\ pc' = "done" /\ i' = 0
    /\ UNCHANGED <<parser, workers>>
    /\ UNCHANGED <<next_id, vault, local, existing_page_id, listed,
                   start_cursor, page_id, pre, lookup_failed, last, runs>>

\* clear_page_blocks: one blocks.delete request; its failure is logged and
\* the loop goes on.
DeleteBlock(ok) ==
    /\ pc = "clear_delete"
    /\ Deletable(listed[i + 1])
    /\ reqs' = Append(reqs, Request("blocks.delete", ok, listed[i + 1].id, <<>>))
    /\ failures' = Failed(ok)
    /\ pages' = IF ok THEN WithDeleted(existing_page_id, listed[i + 1].id) ELSE pages
    /\ NextDelete
    /\ UNCHANGED <<parser, workers>>
    /\ UNCHANGED <<next_id, vault, local, existing_page_id, listed,
                   start_cursor, page_id, outcome, pre, lookup_failed, last, runs>>

\* update_page_blocks: one blocks.children.append request.
AppendBatch(ok) ==
    /\ pc = "append"
    /\ LET batch == Batch(blocks, i)
       IN  /\ reqs' = Append(reqs, Request("blocks.children.append", ok,
                                           existing_page_id, batch))
           /\ failures' = Failed(ok)
           /\ IF ok
              THEN /\ pages' = WithAppended(existing_page_id, batch)
                   /\ next_id' = next_id + Len(batch)
                   /\ i' = i + BatchSize
                   /\ IF i' < Len(blocks)
                      THEN UNCHANGED <<pc, outcome>>
                      ELSE outcome' = "updated" /\ pc' = "done"
              ELSE /\ outcome' = "append_failed"
                   /\ pc' = AfterFailure("append")
                   /\ UNCHANGED <<pages, next_id, i>>
    /\ UNCHANGED <<parser, workers>>
    /\ UNCHANGED <<vault, local, existing_page_id, listed, start_cursor,
                   page_id, pre, lookup_failed, last, runs>>

\* The create path: the pages.create request, with the title, the file_id
\* and the first blocks.
CreatePage(ok) ==
    /\ pc = "create"
    /\ LET children == FirstBatch(blocks)
       IN  /\ reqs' = Append(reqs,
                  [op |-> "pages.create", ok |-> ok, target |-> None,
                   children |-> children, title |-> title, file_id |-> file_id])
           /\ failures' = Failed(ok)
           /\ IF ok
              THEN /\ pages' = Append(pages,
                          [id |-> next_id, file_id |-> file_id, title |-> title,
                           children |-> Stored(children, next_id + 1)])
                   /\ page_id' = next_id
                   /\ next_id' = next_id + 1 + Len(children)
                   /\ i' = BatchSize
                   /\ IF Len(blocks) > BatchSize
                      THEN pc' = "create_append" /\ UNCHANGED outcome
                      ELSE outcome' = "created" /\ pc' = "done"
              ELSE /\ outcome' = "create_failed"
                   /\ pc' = "done"
                   /\ UNCHANGED <<pages, next_id, page_id, i>>
    /\ UNCHANGED <<parser, workers>>
    /\ UNCHANGED <<vault, local, existing_page_id, listed, start_cursor, pre,
                   lookup_failed, last, runs>>

\* The create path: one blocks.children.append request for the blocks after
\* the first hundred.
CreateAppend(ok) ==
    /\ pc = "create_append"
    /\ LET batch == Batch(blocks, i)
       IN  /\ reqs' = Append(reqs, Request("blocks.children.append", ok, page_id, batch))
           /\ failures' = Failed(ok)
           /\ IF ok
              THEN /\ pages' = WithAppended(page_id, batch)
                   /\ next_id' = next_id + Len(batch)
                   /\ i' = i + BatchSize
                   /\ IF i' < Len(blocks)
                      THEN UNCHANGED <<pc, outcome>>
                      ELSE outcome' = "created" /\ pc' = "done"
              ELSE /\ outcome' = "create_failed"
                   /\ pc' = "done"
                   /\ UNCHANGED <<pages, next_id, i>>
    /\ UNCHANGED <<parser, workers>>
    /\ UNCHANGED <<vault, local, existing_page_id, listed, start_cursor,
                   page_id, pre, lookup_failed, last, runs>>

\* The pages of the store that carry the identity fid.
PagesOf(fid) == QueryResults(fid)

\* The call returns.
Return ==
    /\ pc = "done"
    /\ pc' = "idle"
    /\ runs' = runs + 1
    /\ last' = [last EXCEPT ![markdown_file] =
                  [blocks |-> blocks, outcome |-> outcome,
                   clean |-> \A k \in 1..Len(reqs) : reqs[k].ok,
                   after |-> IF Len(PagesOf(file_id)) > 0
                             THEN Contents(PagesOf(file_id)[1].children)
                             ELSE <<>>]]
    /\ UNCHANGED <<parser, workers>>
    /\ UNCHANGED <<pages, next_id, vault, local, existing_page_id, listed,
                   start_cursor, i, page_id, outcome, reqs, pre,
                   lookup_failed, failures>>

Next ==
    \/ \E d \in Docs, readable \in BOOLEAN :
          \E content \in Documents(vault, d) : Start(d, readable, content)
    \/ \E ok \in Outcomes : DatabasesQuery(ok)
    \/ NoDatabasesQuery
    \/ \E ok \in Outcomes : HttpQuery(ok)
    \/ \E ok \in Outcomes : ListChildren(ok)
    \/ SkipUnsupported
    \/ \E ok \in Outcomes : DeleteBlock(ok)
    \/ \E ok \in Outcomes : AppendBatch(ok)
    \/ \E ok \in Outcomes : CreatePage(ok)
    \/ \E ok \in Outcomes : CreateAppend(ok)
    \/ Return

Spec == Init /\ [][Next]_vars

SpecBatch == InitBatch /\ [][Next]_vars

\* ------------------------------------------------------------- two workers
\* Two workers run create_or_update_page on the same store with nothing to
\* keep them apart: between two steps of the running call the other worker
\* may be given the processor.  A call switched out before it has returned
\* is recorded by its identity.
Switch ==
    /\ ~(pc = "idle" /\ suspended.pc = "idle")
    /\ suspended' =
          [pc |-> pc, markdown_file |-> markdown_file, file_id |-> file_id,
           title |-> title, blocks |-> blocks,
           existing_page_id |-> existing_page_id, listed |-> listed,
           start_cursor |-> start_cursor, i |-> i, page_id |-> page_id,
           outcome |-> outcome, reqs |-> reqs, pre |-> pre,
           lookup_failed |-> lookup_failed]
    /\ pc' = suspended.pc
    /\ markdown_file' = suspended.markdown_file
    /\ file_id' = suspended.file_id
    /\ title' = suspended.title
    /\ blocks' = suspended.blocks
    /\ existing_page_id' = suspended.existing_page_id
    /\ listed' = suspended.listed
    /\ start_cursor' = suspended.start_cursor
    /\ i' = suspended.i
    /\ page_id' = suspended.page_id
    /\ outcome' = suspended.outcome
    /\ reqs' = suspended.reqs
    /\ pre' = suspended.pre
    /\ lookup_failed' = suspended.lookup_failed
    /\ preempted' = IF pc # "idle" THEN preempted \cup {file_id} ELSE preempted
    /\ UNCHANGED parser
    /\ UNCHANGED <<pages, next_id, vault, last, runs, failures>>

\* Every remote call succeeds; the files are a short note or two batches
\* long; file 2 has its page in the store, file 1 has none.
InitWorkers ==
    /\ pages = <<OldPage(2)>>
    /\ InitCall
    /\ vault = "workers"
    /\ failures = MaxFailures

NextWorkers == Next \/ Switch

SpecWorkers == InitWorkers /\ [][NextWorkers]_vars

\* ---------------------------------------------------------------------- run
\* str.find(sub) >= 0, the test "sub in s".
Contains(s, sub) ==
    \E k \in 0..(Len(s) - Len(sub)) : SubSeq(s, k + 1, k + Len(sub)) = sub

\* The path fragments run() excludes.
excluded_paths ==
    { <<".", "o", "b", "s", "i", "d", "i", "a", "n">>,
      <<".", "g", "i", "t">>,
      <<".", "g", "i", "t", "h", "u", "b">>,
      <<"n", "o", "d", "e", "_", "m", "o", "d", "u", "l", "e", "s">> }

\* vault_path.rglob('*.md'): the files under the vault root, as listed.
rglob == <<1, 3, 2>>

\* The files run() keeps: those whose path holds no excluded fragment.
markdown_files ==
    SelectSeq(rglob, LAMBDA d : \A ex \in excluded_paths : ~Contains(FilePath(d), ex))

\* run(): the loop calls create_or_update_page on the next file of the list.
RunNext(readable, content) ==
    /\ runs < Len(markdown_files)
    /\ content \in Documents(vault, markdown_files[runs + 1])
    /\ Start(markdown_files[runs + 1], readable, content)

\* One run of the program over the vault, call after call.
NextRun ==
    \/ \E readable \in BOOLEAN :
          \E content \in Documents(vault, 1) : RunNext(readable, content)
    \/ \E ok \in Outcomes : DatabasesQuery(ok)
    \/ NoDatabasesQuery
    \/ \E ok \in Outcomes : HttpQuery(ok)
    \/ \E ok \in Outcomes : ListChildren(ok)
    \/ SkipUnsupported
    \/ \E ok \in Outcomes : DeleteBlock(ok)
    \/ \E ok \in Outcomes : AppendBatch(ok)
    \/ \E ok \in Outcomes : CreatePage(ok)
    \/ \E ok \in Outcomes : CreateAppend(ok)
    \/ Return

\* The program is sequential and every remote call returns: the step that
\* is enabled is taken.
SpecRun == Init /\ [][NextRun]_vars /\ WF_vars(NextRun)

\* The variables of the remote store and of the calls on it.
remote == <<pages, next_id, vault, existing_page_id, listed, start_cursor, i,
            page_id, outcome, reqs, pre, lookup_failed, last, runs, failures,
            suspended, preempted>>

\* ---------------------------------------------------------- the parser alone
\* The number of lines of the documents made of every combination of lines.
MaxLines == 2

\* The lines the documents given to the parser are made of (a backtick is
\* written "^").
SampleLines ==
    { <<"-", "-", "-">>,   \* the front-matter marker
      <<>>,   \* a blank line
      <<"#", " ", "T">>,   \* a heading
      <<"#", "#", "#", "#", " ", "d">>,   \* a heading of level 4
      <<"#", "#", "#", "#", "#", " ", " ", "e">>,   \* a heading of level 5
      <<"-", " ", "a">>,   \* a list item
      <<"-", " ", "[", " ", "]", " ", "a">>,   \* an open task
      <<"-", " ", "[", "x", "]", " ", "b">>,   \* a task done
      <<"-", " ", "[", "X", "]", " ", "c">>,   \* a task done, capital X
      <<"^", "^", "^">>,   \* a fence
      <<"^", "^", "^", "j", "s">>,   \* a fence with a language
      <<">", " ", "q">>,   \* a quote
      <<"!", "[", "[", "p", "]", "]">>,   \* a wiki image
      <<"!", "[", "[", "p", ".", "p", "n", "g", "]", "]">>,   \* a wiki image with its extension
      <<"!", "[", "a", "]", "(", "p", ".", "p", "n", "g", ")">>,   \* a markdown image
      <<"!", "[", "a", "]", "(", "h", "t", "t", "p", ":", "/", "/", "x", "/", "p", ".", "p", "n", "g", ")">>,   \* a markdown image with a URL
      <<"x", " ", "!", "[", "[", "p", ".", "p", "n", "g", "]", "]", " ", "y", " ", "!", "[", "b", "]", "(", "q", ".", "p", "n", "g", ")">>,   \* text with two images
      <<"!", "[", "[", "p", "]", "]", " ", "t", " ", "!", "[", "[", "q", "]", "]">>,   \* two wiki images and text
      <<"t", "e", "x", "t">> }   \* a paragraph

\* Front matter, then a heading and a paragraph.
FrontMatterDoc ==
    << <<"-", "-", "-">>,
       <<"a", ":", " ", "b">>,
       <<"-", "-", "-">>,
       <<"#", " ", "T">>,
       <<"t", "e", "x", "t">> >>

\* A fenced block with a blank line and a line that begins with '#'.
CodeDoc ==
    << <<"^", "^", "^", "j", "s">>,
       <<>>,
       <<"#", " ", "T">>,
       <<"^", "^", "^">>,
       <<"t", "e", "x", "t">> >>

\* A fenced block with a line inside that begins with the fence.
NestedFenceDoc ==
    << <<"^", "^", "^">>,
       <<"a">>,
       <<"^", "^", "^", "j", "s">>,
       <<"b">>,
       <<"^", "^", "^">> >>

\* An image line between two other lines.
ImageDoc ==
    << <<"-", " ", "a">>,
       <<"!", "[", "[", "p", "]", "]">>,
       <<"t", "e", "x", "t">> >>

\* Front matter, then a paragraph and the marker once more.
LateMarkerDoc ==
    << <<"-", "-", "-">>,
       <<"a", ":", " ", "b">>,
       <<"-", "-", "-">>,
       <<"t", "e", "x", "t">>,
       <<"-", "-", "-">> >>

\* The documents given to the parser.
ParserDocuments ==
    UNION {[1..n -> SampleLines] : n \in 1..MaxLines}
    \cup {EmptyDoc, FrontMatterDoc, CodeDoc, NestedFenceDoc, ImageDoc, LateMarkerDoc}

\* The files next to file 1, and which of them get a URL.
Environments ==
    LET here == {<<"/", "v", "/", "i", "m", "a", "g", "e", "s", "/", "p", ".", "p", "n", "g">>,
                 <<"/", "v", "/", "p", ".", "p", "n", "g">>,
                 <<"/", "v", "/", "q", ".", "p", "n", "g">>}
        elsewhere == {<<"/", "v", "/", "a", "t", "t", "a", "c", "h", "m", "e", "n", "t", "s", "/", "p", ".", "j", "p", "g">>,
                      <<"/", "v", "/", "a", "s", "s", "e", "t", "s", "/", "q", ".", "p", "n", "g">>}
        upper == {<<"/", "v", "/", "i", "m", "a", "g", "e", "s", "/", "p", ".", "G", "I", "F">>,
                  <<"/", "v", "/", "a", "t", "t", "a", "c", "h", "m", "e", "n", "t", "s", "/", "p", ".", "p", "n", "g">>,
                  <<"/", "v", "/", "p", ".", "j", "p", "g">>}
    IN  { [fs |-> {}, uploadable |-> {}],
          [fs |-> here, uploadable |-> here],
          [fs |-> here, uploadable |-> {}],
          [fs |-> elsewhere, uploadable |-> elsewhere],
          [fs |-> upper, uploadable |-> upper] }

\* The files create_or_update_page is given: file 1, file 2, and file 2
\* written with a backslash.
ParserFiles == {1, 2, 4}

\* create_or_update_page is given a file; its content and the files around
\* it are any of the above (the images are next to file 1).
InitParser ==
    /\ markdown_file \in ParserFiles
    /\ markdown_content \in (IF markdown_file = 1 THEN ParserDocuments
                             ELSE {TitleDoc, FrontMatterDoc})
    /\ \E e \in Environments :
          /\ markdown_file # 1 => e.fs = {}
          /\ fs = e.fs
          /\ uploadable = e.uploadable
    /\ pc = "unread"
    /\ cursor = 0
    /\ trace = <<>>
    /\ pages = <<>>
    /\ next_id = 100
    /\ vault = "parser"
    /\ file_id = [sha256_16 |-> <<>>]
    /\ title = <<>>
    /\ blocks = <<>>
    /\ existing_page_id = None
    /\ listed = <<>>
    /\ start_cursor = 0
    /\ i = 0
    /\ page_id = None
    /\ outcome = "none"
    /\ reqs = <<>>
    /\ pre = <<>>
    /\ suspended = IdleWorker(<<>>)
    /\ preempted = {}
    /\ lookup_failed = FALSE
    /\ last = [d \in Docs |-> NoLast]
    /\ runs = 0
    /\ failures = 0

\* create_or_update_page up to the call of the parser: the identity and the
\* title are derived, the parser sets out at the first line.
ReadFile ==
    /\ pc = "unread"
    /\ file_id' = generate_file_id(markdown_file)
    /\ title' = Title(markdown_file, markdown_content)
    /\ blocks' = <<>>
    /\ cursor' = 0
    /\ pc' = "parsing"
    /\ UNCHANGED <<markdown_file, markdown_content, fs, uploadable, trace>>
    /\ UNCHANGED remote

\* One iteration of the parser's while loop.
ParseLine ==
    /\ pc = "parsing"
    /\ cursor < Len(markdown_content)
    /\ LET step == ParseStep(markdown_content, cursor)
       IN  /\ cursor' = step.i
           /\ blocks' = blocks \o step.out
           /\ trace' = Append(trace, [rule |-> step.rule, i |-> cursor,
                                      to |-> step.i, out |-> step.out])
    /\ UNCHANGED <<markdown_file, markdown_content, fs, uploadable, file_id, title, pc>>
    /\ UNCHANGED remote

\* The while loop ends and the parser returns its blocks.
ParseEnd ==
    /\ pc = "parsing"
    /\ cursor >= Len(markdown_content)
    /\ pc' = "parsed"
    /\ UNCHANGED <<markdown_file, markdown_content, fs, uploadable, file_id, title,
                   blocks, cursor, trace>>
    /\ UNCHANGED remote

NextParser == ReadFile \/ ParseLine \/ ParseEnd

SpecParser == InitParser /\ [][NextParser]_vars

\* ------------------------------------------------------------------ claims
\* The requests of the running call with operation op, in order.
Requests(op) == SelectSeq(reqs, LAMBDA r : r.op = op)

\* The requests of the running call that carry blocks.
BlockRequests == SelectSeq(reqs, LAMBDA r : r.op \in {"pages.create", "blocks.children.append"})

\* The lengths of the batches of the requests rs.
Sizes(rs) == [k \in 1..Len(rs) |-> Len(rs[k].children)]

RECURSIVE Concatenated(_)
\* The batches of the requests rs, one after the other.
Concatenated(rs) ==
    IF Len(rs) = 0 THEN <<>> ELSE rs[1].children \o Concatenated(Tail(rs))

\* Every request of the running call succeeded.
AllSucceeded == \A k \in 1..Len(reqs) : reqs[k].ok

\* The call has ended reporting a created or an updated page.
ReportsSuccess == pc = "done" /\ outcome \in {"created", "updated"}

\* The block contents of the first page of the store with identity fid.
RemoteContents(fid) ==
    IF Len(PagesOf(fid)) > 0 THEN Contents(PagesOf(fid)[1].children) ELSE <<>>

\* C1: whenever a call ends reporting success, the store holds at most one
\* page whose file_id is the identity of the call's file.
C1_OnePagePerIdentity ==
    ReportsSuccess => Len(PagesOf(file_id)) <= 1

\* C2: a second call for a file whose parsed blocks are those of its first
\* call, every remote call of both succeeding, leaves the page's block
\* sequence as the first call left it and creates no page.
C2_IdempotentResync ==
    (/\ ReportsSuccess
     /\ AllSucceeded
     /\ last[markdown_file].outcome \in {"created", "updated"}
     /\ last[markdown_file].clean
     /\ last[markdown_file].blocks = blocks)
    => /\ RemoteContents(file_id) = last[markdown_file].after
       /\ Len(Requests("pages.create")) = 0
       /\ Len(pages) = Len(pre)

C2_Witness ==
    /\ ReportsSuccess
    /\ AllSucceeded
    /\ last[markdown_file].outcome = "created"
    /\ last[markdown_file].clean
    /\ last[markdown_file].blocks = blocks
    /\ Len(blocks) = 137
    /\ Len(Requests("blocks.delete")) = 137

\* C3: when find_page_by_file_id fails, the call issues no create, list,
\* delete or append request.
C3_LookupFailureAborts ==
    lookup_failed =>
        \A k \in 1..Len(reqs) : reqs[k].op = "databases.query"

Unsupported ==
    SelectSeq(pre[PageIndex(existing_page_id)].children,
              LAMBDA b : b.type = "unsupported")

C5_BatchCeiling ==
    \A k \in 1..Len(reqs) :
        reqs[k].op \in {"pages.create", "blocks.children.append"}
        => Len(reqs[k].children) <= 100

C5_Witness ==
    /\ Len(blocks) = 201
    /\ Sizes(BlockRequests) = <<100, 100, 1>>

\* C6: an update of N >= 1 blocks that ends updated has issued ceil(N/100)
\* append requests whose batches, in request order, make up the parsed blocks.
C6_UpdateBatches ==
    (ReportsSuccess /\ outcome = "updated")
    => /\ Len(blocks) >= 1
       /\ Len(Requests("blocks.children.append")) = (Len(blocks) + 99) \div 100
       /\ Concatenated(Requests("blocks.children.append")) = blocks
       /\ Len(Requests("pages.create")) = 0

C6_Witness ==
    /\ ReportsSuccess
    /\ outcome = "updated"
    /\ Len(blocks) = 201
    /\ Len(Requests("blocks.children.append")) = 3

\* C7: a create of N >= 1 blocks that ends created has sent one create
\* request with the title, the identity and the first min(N, 100) blocks, then
\* the blocks after them in append requests of at most 100, in order; the new
\* page holds the parsed blocks; 150 blocks take the create and one append of 50.
C7_CreateThenAppend ==
    (ReportsSuccess /\ outcome = "created")
    => /\ Len(blocks) >= 1
       /\ Len(Requests("pages.create")) = 1
       /\ BlockRequests[1].op = "pages.create"
       /\ BlockRequests[1].title = title
       /\ BlockRequests[1].file_id = file_id
       /\ BlockRequests[1].children = SubSeq(blocks, 1, Min(Len(blocks), 100))
       /\ \A k \in 2..Len(BlockRequests) :
              /\ BlockRequests[k].target = page_id
              /\ Len(BlockRequests[k].children) <= 100
       /\ Concatenated(BlockRequests) = blocks
       /\ \A k \in 1..Len(reqs) :
              reqs[k].op \in {"databases.query", "pages.create", "blocks.children.append"}
       /\ Contents(pages[PageIndex(page_id)].children) = blocks
       /\ pages[PageIndex(page_id)].title = title
       /\ pages[PageIndex(page_id)].file_id = file_id
       /\ (Len(blocks) = 150 => Sizes(BlockRequests) = <<100, 50>>)

C7_Witness ==
    /\ ReportsSuccess
    /\ outcome = "created"
    /\ Len(blocks) = 150
    /\ Sizes(Requests("blocks.children.append")) = <<50>>

\* C8 as stated: 137 blocks take exactly two append requests, of 100 and of
\* 37 blocks, on the create path and on the update path.
C8_TwoAppends ==
    (ReportsSuccess /\ Len(blocks) = 137)
    => Sizes(Requests("blocks.children.append")) = <<100, 37>>

\* C8 as amended: 137 blocks take two append requests of 100 and 37 blocks on
\* the update path; on the create path the create request carries the first
\* 100 and exactly one append request the other 37; in both, in order.
C8_TwoBatches ==
    (ReportsSuccess /\ Len(blocks) = 137)
    => /\ Sizes(BlockRequests) = <<100, 37>>
       /\ Concatenated(BlockRequests) = blocks
       /\ (outcome = "updated"
              => Sizes(Requests("blocks.children.append")) = <<100, 37>>)
       /\ (outcome = "created"
              => /\ BlockRequests[1].op = "pages.create"
                 /\ Sizes(Requests("blocks.children.append")) = <<37>>)

C8_Witness ==
    /\ ReportsSuccess
    /\ Len(blocks) = 137
    /\ outcome = "created"
    /\ Sizes(Requests("blocks.children.append")) = <<37>>

\* C9: a call whose parser output is empty issues no remote request and
\* leaves the store as it was.
C9_EmptySkips ==
    (outcome \notin {"none", "read_failed"} /\ Len(blocks) = 0)
    => /\ reqs = <<>>
       /\ pages = pre
       /\ outcome = "skipped"

C9_Witness ==
    /\ pc = "done"
    /\ outcome = "skipped"
    /\ Len(blocks) = 0
    /\ Len(pages) > 0

\* C10: a failed list, append or create request is the last request of its
\* call.
C10_FailureEndsCall ==
    \A k \in 1..Len(reqs) :
        (/\ reqs[k].op \in {"blocks.children.list", "blocks.children.append",
                            "pages.create"}
         /\ ~reqs[k].ok)
        => k = Len(reqs)

C10_Witness ==
    /\ pc = "done"
    /\ outcome = "append_failed"
    /\ Len(blocks) > 100
    /\ Len(Requests("blocks.children.append")) = 1
    /\ ~reqs[Len(reqs)].ok

\* The run is over: the loop of run() has gone through the list.
RunOver == pc = "idle" /\ runs = Len(markdown_files)

\* C11: with every remote call returning, run() calls create_or_update_page
\* on every file it enumerated and ends, whatever failed on the way.
C11_RunVisitsEveryFile ==
    <>(/\ RunOver
       /\ \A k \in 1..Len(markdown_files) :
             last[markdown_files[k]].outcome # "none")

C11_Witness ==
    /\ RunOver
    /\ last[markdown_files[1]].outcome = "create_failed"
    /\ last[markdown_files[2]].outcome = "created"

\* The blocks.delete requests of the running call that failed.
FailedDeletes == SelectSeq(Requests("blocks.delete"), LAMBDA r : ~r.ok)

\* The ids of the blocks the page of the running call holds.
ChildIds(pid) ==
    {pages[PageIndex(pid)].children[k].id :
        k \in 1..Len(pages[PageIndex(pid)].children)}

LineOf(k) == rstrip(markdown_content[trace[k].i + 1])

\* C13: every iteration of the parser's loop moves the cursor forward by at
\* least one line, so that the loop ends after at most as many iterations
\* as there are lines, and an iteration of any rule but the inline-image
\* rule appends no block or one.
C13_ParserAdvances ==
    /\ \A k \in 1..Len(trace) :
          /\ trace[k].to >= trace[k].i + 1
          /\ trace[k].rule # "inline_images" => Len(trace[k].out) <= 1
          /\ k > 1 => trace[k].i = trace[k - 1].to
    /\ Len(trace) <= cursor
    /\ pc = "parsing" => Len(trace) <= Len(markdown_content)
    /\ pc = "parsed" => cursor >= Len(markdown_content)

C13_Witness ==
    /\ pc = "parsed"
    /\ Len(trace) = 2
    /\ trace[1].rule = "code"
    /\ trace[1].to = 4
    /\ trace[2].rule = "paragraph"

\* The line begins with '- [ ]', '- [x]' or '- [X]'.
IsTaskLine(line) ==
    /\ Len(line) >= 5
    /\ SubSeq(line, 1, 3) = <<"-", " ", "[">>
    /\ line[4] \in {" ", "x", "X"}
    /\ line[5] = "]"

\* C14: a line that begins with '- [ ]' or '- [x]' (in either case) gives
\* one to_do block, checked exactly when the mark is an x, whose text is the
\* rest of the line.
C14_TaskLineGivesToDo ==
    \A k \in 1..Len(trace) :
        IsTaskLine(LineOf(k)) =>
            trace[k].out = << Block("to_do", lstrip(From(LineOf(k), 5), Whitespace), <<>>,
                                    LineOf(k)[4] \in {"x", "X"}) >>

\* The 0-based index of the first line after the front matter, 0 when the
\* document has none.
FirstContentLine(lines) ==
    IF rstrip(lines[1]) = <<"-", "-", "-">> THEN FrontMatterEnd(lines, 1) + 1 ELSE 0

\* C15: the title is the text of the first line after the front matter when
\* that line is a heading, and the file name without extension otherwise.
C15_TitleFromFirstContentLine ==
    pc \in {"parsing", "parsed"} =>
        LET k == FirstContentLine(markdown_content)
            line == IF k < Len(markdown_content)
                    THEN rstrip(markdown_content[k + 1]) ELSE <<>>
        IN  title = IF startswith(line, <<"#">>) THEN HeadingBlock(line).content
                    ELSE Stem(markdown_file)

\* C16: a markdown image whose path begins with http:// or https:// is not
\* reported as not found.
C16_ExternalImageNotWarned ==
    \A k \in 1..Len(trace) :
        (trace[k].rule = "md_image"
         /\ IsExternal(Slice(LineOf(k), MdSplitAt(LineOf(k)) + 2, Len(LineOf(k)) - 1)))
        => \A b \in 1..Len(trace[k].out) :
              trace[k].out[b] #
                TextBlock(WarningNotFound(
                    Slice(LineOf(k), MdSplitAt(LineOf(k)) + 2, Len(LineOf(k)) - 1)))

\* The 0-based index of the first line at or after first whose stripped text
\* is the fence and nothing else, Len(lines) when there is none.
ExactFenceEnd(lines, first) ==
    CHOOSE k \in first..Len(lines) :
        /\ \A j \in first..(k - 1) : strip(lines[j + 1]) # Fence
        /\ (k = Len(lines) \/ strip(lines[k + 1]) = Fence)

\* C17: the text of a code block is the lines between the opening fence and
\* the first later line that is the fence and nothing else, joined by
\* newlines as they are; an empty language gives "plain text".
C17_CodeUpToExactFence ==
    \A k \in 1..Len(trace) :
        trace[k].rule = "code" =>
            LET lang == strip(From(strip(markdown_content[trace[k].i + 1]), 3))
            IN  trace[k].out =
                  << Block("code",
                           JoinLines(SubSeq(markdown_content, trace[k].i + 2,
                                            ExactFenceEnd(markdown_content, trace[k].i + 1))),
                           IF lang = <<>>
                           THEN <<"p", "l", "a", "i", "n", " ", "t", "e", "x", "t">>
                           ELSE lang,
                           FALSE) >>

\* The file the image of a standalone image line resolves to, None when it
\* does not resolve.
ResolvedFile(k) ==
    IF trace[k].rule = "wiki_image"
    THEN find_image_path(MarkdownDir, Slice(LineOf(k), 3, Len(LineOf(k)) - 2))
    ELSE _resolve_image_path(MarkdownDir,
             Slice(LineOf(k), MdSplitAt(LineOf(k)) + 2, Len(LineOf(k)) - 1))

\* The name a standalone image line refers to.
ReferredName(k) ==
    IF trace[k].rule = "wiki_image" THEN Slice(LineOf(k), 3, Len(LineOf(k)) - 2)
    ELSE Slice(LineOf(k), MdSplitAt(LineOf(k)) + 2, Len(LineOf(k)) - 1)

\* C18: a standalone image line gives exactly one block and moves the cursor
\* by one line: an image block when the file resolves and gets a URL, a
\* camera placeholder when it resolves and gets none, a warning placeholder
\* with the name as written when it does not resolve; the parser goes on
\* with the next line.
C18_StandaloneImageOneBlock ==
    \A k \in 1..Len(trace) :
        trace[k].rule \in {"wiki_image", "md_image"} =>
            /\ Len(trace[k].out) = 1
            /\ trace[k].to = trace[k].i + 1
            /\ (ResolvedFile(k) # NoPath /\ ResolvedFile(k) \in uploadable)
                  => trace[k].out[1].type = "image"
            /\ (ResolvedFile(k) # NoPath /\ ResolvedFile(k) \notin uploadable)
                  => /\ trace[k].out[1].type = "paragraph"
                     /\ startswith(trace[k].out[1].content, <<"[", "camera">>)
            /\ ResolvedFile(k) = NoPath
                  => trace[k].out[1] = TextBlock(WarningNotFound(ReferredName(k)))
            /\ (pc = "parsed" /\ trace[k].to < Len(markdown_content))
                  => k < Len(trace) /\ trace[k + 1].i = trace[k].to

C18_Witness ==
    /\ pc = "parsed"
    /\ Len(trace) = 3
    /\ trace[2].rule = "wiki_image"
    /\ ResolvedFile(2) # NoPath
    /\ blocks[2] = TextBlock(CameraPicture(<<"p">>))
    /\ blocks[3].type = "paragraph"

\* C19: a line handled by the inline-image rule gives one image block or
\* placeholder per image reference, in the order of the references in the
\* line, then one paragraph with the rest of the text when that is not
\* blank, and nothing else.
C19_InlineImagesInOrder ==
    \A k \in 1..Len(trace) :
        trace[k].rule = "inline_images" =>
            LET ms == all_matches(LineOf(k))
                text == strip(TextParts(LineOf(k)))
                n == Len(ms)
            IN  /\ Len(trace[k].out) = n + (IF text # <<>> THEN 1 ELSE 0)
                /\ \A j \in 1..n :
                      /\ j < n => ms[j].end <= ms[j + 1].start
                      /\ trace[k].out[j] =
                           InlineImageBlock(Slice(LineOf(k), ms[j].start, ms[j].end))
                      /\ \/ trace[k].out[j].type = "image"
                         \/ /\ trace[k].out[j].type = "paragraph"
                            /\ \/ startswith(trace[k].out[j].content, <<"[", "camera">>)
                               \/ startswith(trace[k].out[j].content, <<"[", "warning">>)
                /\ text # <<>> => trace[k].out[n + 1] = TextBlock(text)

C19_Witness ==
    /\ pc = "parsed"
    /\ Len(trace) = 1
    /\ trace[1].rule = "inline_images"
    /\ Len(blocks) = 3
    /\ blocks[1].type = "image"
    /\ blocks[2].type = "image"
    /\ blocks[3] = TextBlock(<<"x", " ", " ", "y">>)

\* C20: the identity is a function of the path below the vault root with
\* its separators normalized, and of nothing else: whatever the content,
\* file 1 and file 2 get the identity of 'a.md' and of 's/b.md', and file 2
\* written with a backslash gets the identity of file 2.
C20_IdentityOfNormalizedPath ==
    (pc \in {"parsing", "parsed"} /\ markdown_file \in ParserFiles) =>
        file_id = [sha256_16 |->
                     IF markdown_file = 1 THEN <<"a", ".", "m", "d">>
                     ELSE <<"s", "/", "b", ".", "m", "d">>]

C20_Witness ==
    /\ pc = "parsed"
    /\ markdown_file = 4
    /\ markdown_content = FrontMatterDoc
    /\ file_id = generate_file_id(2)

\* C21: a line that begins with k >= 1 '#' gives exactly one heading block
\* of level min(k, 3) whose text is the rest of the line, trimmed.
C21_HeadingLevelClamped ==
    \A k \in 1..Len(trace) :
        startswith(LineOf(k), <<"#">>) =>
            LET n == CHOOSE n \in 1..Len(LineOf(k)) :
                        /\ \A j \in 1..n : LineOf(k)[j] = "#"
                        /\ (n = Len(LineOf(k)) \/ LineOf(k)[n + 1] # "#")
            IN  /\ Len(trace[k].out) = 1
                /\ trace[k].out[1].type =
                     (IF n = 1 THEN "heading_1" ELSE IF n = 2 THEN "heading_2"
                      ELSE "heading_3")
                /\ trace[k].out[1].content = strip(From(LineOf(k), n))

C21_Witness ==
    /\ pc = "parsed"
    /\ Len(trace) = 2
    /\ Len(blocks) = 2
    /\ LineOf(1) = <<"#", "#", "#", "#", "#", " ", " ", "e">>
    /\ blocks[1] = Block("heading_3", <<"e">>, <<>>, FALSE)
    /\ blocks[2].type = "heading_1"

\* The front-matter marker.
Marker == <<"-", "-", "-">>

\* The 0-based indices of the lines after the first whose text is the marker.
LaterMarkers ==
    {j \in 1..(Len(markdown_content) - 1) : strip(markdown_content[j + 1]) = Marker}

\* C22: front matter is skipped only at a first line that is '---': the
\* lines up to and with the next '---' give no block, and a '---' line the
\* parser meets anywhere else is a paragraph.
C22_FrontMatterOnlyAtStart ==
    \A k \in 1..Len(trace) :
        /\ trace[k].rule = "front_matter" <=> (trace[k].i = 0 /\ LineOf(k) = Marker)
        /\ trace[k].rule = "front_matter" =>
              /\ trace[k].out = <<>>
              /\ trace[k].to = IF LaterMarkers = {} THEN Len(markdown_content) + 1
                               ELSE 1 + CHOOSE j \in LaterMarkers :
                                           \A m \in LaterMarkers : j <= m
        /\ (trace[k].i > 0 /\ LineOf(k) = Marker) =>
              /\ trace[k].out = <<Block("paragraph", Marker, <<>>, FALSE)>>
              /\ trace[k].to = trace[k].i + 1

C22_Witness ==
    /\ pc = "parsed"
    /\ markdown_content = LateMarkerDoc
    /\ trace[1].rule = "front_matter"
    /\ trace[1].to = 3
    /\ Len(blocks) = 2
    /\ blocks[2] = Block("paragraph", Marker, <<>>, FALSE)

\* The extensions of the claim: the five in lower case, then in upper case.
ClaimedExtensions ==
    << <<".", "p", "n", "g">>, <<".", "j", "p", "g">>, <<".", "j", "p", "e", "g">>,
       <<".", "g", "i", "f">>, <<".", "w", "e", "b", "p">>, <<".", "P", "N", "G">>,
       <<".", "J", "P", "G">>, <<".", "J", "P", "E", "G">>, <<".", "G", "I", "F">>,
       <<".", "W", "E", "B", "P">> >>

\* The file the claimed search finds for a name: images/, attachments/, the
\* document's directory, each with every claimed extension.
ClaimedSearch(name) ==
    LET dirs == SearchDirs(MarkdownDir)
        n == Len(ClaimedExtensions)
    IN  FirstExisting([k \in 1..(Len(dirs) * n) |->
            Join(dirs[((k - 1) \div n) + 1],
                 PathName(name) \o ClaimedExtensions[((k - 1) % n) + 1])])

\* C23: find_image_path returns the first file that exists among images/,
\* attachments/ and the document's directory with the extensions .png,
\* .jpg, .jpeg, .gif, .webp and the upper case of each, None when there is
\* none.
C23_SearchOrder ==
    \A k \in 1..Len(trace) :
        trace[k].rule = "wiki_image" =>
            find_image_path(MarkdownDir, ReferredName(k)) = ClaimedSearch(ReferredName(k))

\* The names of the wiki references the k-th iteration resolved.
WikiNames(k) ==
    IF trace[k].rule = "wiki_image" THEN {ReferredName(k)}
    ELSE IF trace[k].rule = "inline_images"
    THEN LET ms == all_matches(LineOf(k))
         IN  {Slice(LineOf(k), ms[m].start + 3, ms[m].end - 2) :
                m \in {m \in 1..Len(ms) :
                         Slice(LineOf(k), ms[m].start, ms[m].start + 3) = <<"!", "[", "[">>}}
    ELSE {}

\* C26: a wiki reference resolves to the same file, or to none, inside a
\* line (_resolve_image_path) as on a line of its own (find_image_path).
C26_SameResolution ==
    \A k \in 1..Len(trace) :
        \A name \in WikiNames(k) :
            _resolve_image_path(MarkdownDir, name) = find_image_path(MarkdownDir, name)

\* C27: a standalone-image rule handles a line only when the line is one
\* image reference and nothing else.
C27_StandaloneIsOneReference ==
    \A k \in 1..Len(trace) :
        trace[k].rule \in {"wiki_image", "md_image"} =>
            all_matches(LineOf(k)) = <<[start |-> 0, end |-> Len(LineOf(k))]>>

\* C28: a wiki reference written with its extension is found when a file of
\* exactly that name is in images/, attachments/ or the document's
\* directory.
C28_NameWithExtensionFound ==
    \A k \in 1..Len(trace) :
        (/\ trace[k].rule = "wiki_image"
         /\ \E e \in 1..Len(Extensions) : endswith(ReferredName(k), Extensions[e])
         /\ \E d \in 1..3 :
               Join(SearchDirs(MarkdownDir)[d], PathName(ReferredName(k))) \in fs)
        => find_image_path(MarkdownDir, ReferredName(k)) # NoPath

\* ---------------------------------------------- claims on the update path
\* The page the lookup of the running call found.
FoundPage == pages[PageIndex(existing_page_id)]

\* The append requests of the running call that succeeded.
Appended == SelectSeq(Requests("blocks.children.append"), LAMBDA r : r.ok)

\* The running call has ended on the update path with a failed append.
AppendFailed ==
    /\ pc = "done"
    /\ existing_page_id # None
    /\ \E k \in 1..Len(reqs) : reqs[k].op = "blocks.children.append" /\ ~reqs[k].ok

\* The listed blocks the clear left in the page: those of type 'unsupported'
\* and those whose delete request failed.
Survivors ==
    SelectSeq(listed, LAMBDA b :
        \/ ~Deletable(b)
        \/ \E k \in 1..Len(FailedDeletes) : FailedDeletes[k].target = b.id)

C29_ListingBeforeDeletes ==
    /\ \A a \in 1..Len(reqs) : \A b \in a..Len(reqs) :
          reqs[b].op = "blocks.children.list" => reqs[a].op # "blocks.delete"
    /\ (\E k \in 1..Len(reqs) : reqs[k].op = "blocks.children.list" /\ ~reqs[k].ok)
          => /\ pc \in {"done", "idle"}
             /\ outcome = "clear_failed"
             /\ Requests("blocks.delete") = <<>>
             /\ Requests("blocks.children.append") = <<>>
             /\ pages = pre

C29_Witness ==
    /\ pc = "done"
    /\ outcome = "clear_failed"
    /\ Len(Requests("blocks.children.list")) = 2
    /\ Requests("blocks.children.list")[1].ok
    /\ ~Requests("blocks.children.list")[2].ok
    /\ Len(listed) = ListPageSize

\* C30: once the lookup has found a page, the call creates no page and
\* changes nothing in the store but the children of that page, by deletes
\* of its blocks and appends to it: its title and file_id stay, whatever
\* title was derived.
C30_UpdateChangesBlocksOnly ==
    (existing_page_id # None /\ pc # "idle") =>
        /\ Requests("pages.create") = <<>>
        /\ Len(pages) = Len(pre)
        /\ \A k \in 1..Len(pages) :
              /\ pages[k].id = pre[k].id
              /\ pages[k].title = pre[k].title
              /\ pages[k].file_id = pre[k].file_id
              /\ pages[k].id # existing_page_id => pages[k].children = pre[k].children
        /\ \A k \in 1..Len(reqs) :
              /\ reqs[k].op \in {"databases.query", "blocks.children.list",
                                 "blocks.delete", "blocks.children.append"}
              /\ reqs[k].op = "blocks.children.append" => reqs[k].target = existing_page_id
              /\ reqs[k].op = "blocks.delete" =>
                    \E b \in 1..Len(listed) : listed[b].id = reqs[k].target

C30_Witness ==
    /\ pc = "done"
    /\ outcome = "updated"
    /\ existing_page_id # None
    /\ title # FoundPage.title
    /\ FoundPage.title = pre[PageIndex(existing_page_id)].title
    /\ Contents(FoundPage.children) # Contents(pre[PageIndex(existing_page_id)].children)

\* ------------------------------------------------- claims on two workers
\* The identities that two pages of the store carry.
Duplicated ==
    { pages[a].file_id : a \in { k \in 1..Len(pages) :
          \E b \in 1..Len(pages) : b # k /\ pages[b].file_id = pages[k].file_id } }

\* C24: two workers that are never switched out in the middle of a call
\* for an identity leave no two pages with that identity when every lookup
\* succeeds; two pages with one identity are there only after a call for
\* it was switched out before it returned.
C24_SerializedNoDuplicate ==
    \A fid \in Duplicated : fid \in preempted

\* Both workers have looked the identity up with success, found nothing,
\* and created a page each.
C24_Witness ==
    /\ file_id = suspended.file_id
    /\ file_id \in Duplicated
    /\ existing_page_id = None /\ suspended.existing_page_id = None
    /\ outcome = "created" /\ suspended.outcome = "created"
    /\ page_id # None /\ suspended.page_id # None
    /\ page_id # suspended.page_id
    /\ \A k \in 1..Len(reqs) : reqs[k].ok
    /\ \A k \in 1..Len(suspended.reqs) : suspended.reqs[k].ok
    /\ reqs[1].op = "databases.query" /\ suspended.reqs[1].op = "databases.query"
    /\ Len(PagesOf(file_id)) = 2

\* ------------------------------------------------- claims on the next run
\* The pages of the store st that carry the identity fid.
PagesIn(st, fid) == SelectSeq(st, LAMBDA p : p.file_id = fid)

\* The call before this one for the same file ended at a failed listing,
\* append or create request; the file is unchanged and this call has ended
\* with every request answered.
RecoveryRun ==
    /\ pc = "done"
    /\ blocks # <<>>
    /\ last[markdown_file].outcome \in {"clear_failed", "append_failed", "create_failed"}
    /\ last[markdown_file].blocks = blocks
    /\ reqs # <<>>
    /\ \A k \in 1..Len(reqs) : reqs[k].ok

\* The page this call wrote to: the one its lookup found, or the one it
\* created.
WrittenPage ==
    pages[PageIndex(IF existing_page_id # None THEN existing_page_id ELSE page_id)]

\* The blocks of type 'unsupported' the found page held when the call began.
KeptBlocks ==
    IF existing_page_id = None THEN <<>>
    ELSE SelectSeq(pre[PageIndex(existing_page_id)].children,
                   LAMBDA b : b.type = "unsupported")

====
